---- MODULE Spec2Model ----
(***************************************************************************)
(* Model of climada.engine.impact_calc.ImpactCalc: the chunked computation *)
(* of the impact of a hazard on exposures, gross (impact) and insured      *)
(* (insured_impact), stitched into a matrix (save_mat) or streamed into    *)
(* the risk metrics.                                                       *)
(*                                                                         *)
(* Numbers are integers: monetary amounts, ratios and frequencies are      *)
(* counted in whole units, so that sums and products are exact.  Exposure  *)
(* positions and centroid indices are 0-based as in the source; events are *)
(* numbered 1..n_events.                                                    *)
(***************************************************************************)
EXTENDS Integers, Sequences, FiniteSets, TLC

\* ------------------------------------------------------------------------
\* Bounds of the model
\* ------------------------------------------------------------------------
MaxExp == 3        \* at most this many rows in exposures.gdf
MaxEvents == 2     \* at most this many hazard events
MaxCells == 3      \* CONFIG.max_matrix_size ranges over 1..MaxCells
NCentr == 2        \* number of hazard centroids

\* A missing impact function id (NaN in the impf column).
NaN == 0

\* ------------------------------------------------------------------------
\* Generic helpers on sequences
\* ------------------------------------------------------------------------
RECURSIVE SumSeq(_)
SumSeq(s) == IF s = <<>> THEN 0 ELSE Head(s) + SumSeq(Tail(s))

RECURSIVE SumSet(_, _)
\* sum of F[x] over the finite set S
SumSet(S, F) ==
  IF S = {} THEN 0
  ELSE LET x == CHOOSE y \in S : TRUE IN F[x] + SumSet(S \ {x}, F)

Zeros(n) == [i \in 1..n |-> 0]

Min2(a, b) == IF a < b THEN a ELSE b
Max2(a, b) == IF a > b THEN a ELSE b

\* the quotient rounded down (faulty variant, breaks C16)
Ceil_Down(a, b) == a \div b

\* np.ceil(a / b) for integers a >= 0, b > 0
Ceil(a, b) == (a + b - 1) \div b

\* np.clip without the upper limit (faulty variant, breaks C21)
Clip_NoUpper(x, lo, hi) == Max2(x, lo)

\* np.clip(x, lo, hi) = minimum(maximum(x, lo), hi)
Clip(x, lo, hi) == Min2(Max2(x, lo), hi)

\* arr[idx] with a 0-based integer index array idx (numpy fancy indexing)
Take(arr, idx) == [j \in 1..Len(idx) |-> arr[idx[j] + 1]]

RECURSIVE NonzeroFrom(_, _)
\* mask.nonzero()[0]: the 0-based positions i >= k - 1 at which mask is TRUE
NonzeroFrom(mask, k) ==
  IF k > Len(mask) THEN <<>>
  ELSE IF mask[k] THEN <<k - 1>> \o NonzeroFrom(mask, k + 1)
  ELSE NonzeroFrom(mask, k + 1)

Nonzero(mask) == NonzeroFrom(mask, 1)

Arange(n) == [i \in 1..n |-> i - 1]

Range(s) == {s[i] : i \in DOMAIN s}

\* ------------------------------------------------------------------------
\* Sparse matrices (scipy.sparse.csr_matrix): a shape and the stored
\* entries, a function from <<row, col>> (row 1-based, col 0-based) to the
\* stored value.  An entry that is not stored reads as 0.
\* ------------------------------------------------------------------------
Csr(nrow, ncol, ent) == [nrow |-> nrow, ncol |-> ncol, ent |-> ent]

Coords(nrow, ncol) == (1..nrow) \X (0..(ncol - 1))

\* the stored entries of a dense description, zeros not stored
FromDense(nrow, ncol, F(_, _)) ==
  LET nz == {x \in Coords(nrow, ncol) : F(x[1], x[2]) # 0}
  IN Csr(nrow, ncol, [x \in nz |-> F(x[1], x[2])])

Get(mat, e, j) == IF <<e, j>> \in DOMAIN mat.ent THEN mat.ent[<<e, j>>] ELSE 0

\* mat.eliminate_zeros()
EliminateZeros(mat) ==
  LET nz == {x \in DOMAIN mat.ent : mat.ent[x] # 0}
  IN Csr(mat.nrow, mat.ncol, [x \in nz |-> mat.ent[x]])

\* a.multiply(b), both of the same shape: stored where both are stored and
\* the product is not zero
Multiply(a, b) ==
  LET nz == {x \in (DOMAIN a.ent) \cap (DOMAIN b.ent) : a.ent[x] * b.ent[x] # 0}
  IN Csr(a.nrow, a.ncol, [x \in nz |-> a.ent[x] * b.ent[x]])

\* a.multiply(v) with v a 1 x ncol row vector, broadcast over the rows of a
MultiplyRow(a, v) ==
  LET nz == {x \in DOMAIN a.ent : a.ent[x] * Get(v, 1, x[2]) # 0}
  IN Csr(a.nrow, a.ncol, [x \in nz |-> a.ent[x] * Get(v, 1, x[2])])

\* a - b, both of the same shape: stored where the difference is not zero
Subtract(a, b) ==
  LET nz == {x \in (DOMAIN a.ent) \cup (DOMAIN b.ent) : Get(a, x[1], x[2]) - Get(b, x[1], x[2]) # 0}
  IN Csr(a.nrow, a.ncol, [x \in nz |-> Get(a, x[1], x[2]) - Get(b, x[1], x[2])])

\* sparse.csr_matrix(row) of a dense 1-d array: a 1 x n row vector
RowVector(arr) == FromDense(1, Len(arr), LAMBDA e, j : arr[j + 1])

\* mat.nonzero(): the coordinates of the entries that are not zero
NonzeroCoords(mat) == {x \in DOMAIN mat.ent : mat.ent[x] # 0}

\* ------------------------------------------------------------------------
\* The collaborators: hazard, impact function set, exposures
\* ------------------------------------------------------------------------
\* Hazard intensity and fraction of event e (1-based) at centroid c (0-based)
Intensity(e, c) == (e + 2 * c) % 3
Fraction(e, c) == (2 * e + c) % 3

\* a hazard with n events; the frequency of event e is e
Hazard(n) ==
  [size |-> n,
   frequency |-> [e \in 1..n |-> e],
   intensity |-> [e \in 1..n |-> [c \in 1..NCentr |-> Intensity(e, c - 1)]],
   fraction |-> [e \in 1..n |-> [c \in 1..NCentr |-> Fraction(e, c - 1)]]]

Hazards == {Hazard(n) : n \in 0..MaxEvents}

\* The impact function set: functions 1 and 2, each mapping the intensity
\* levels 0, 1, 2 to a mean damage ratio and a probability of affection.
ImpfSet ==
  [i \in {1, 2} |->
     IF i = 1 THEN [id |-> 1, mdr |-> <<0, 1, 2>>, paa |-> <<1, 1, 0>>]
     ELSE [id |-> 2, mdr |-> <<1, 0, 3>>, paa |-> <<0, 2, 1>>]]

\* impfset.get_func(haz_type, fun_id): the function, or a lookup error
HasFunc(impfset, fun_id) == fun_id \in DOMAIN impfset
get_func(impfset, fun_id) == impfset[fun_id]

\* hazard.get_mdr(cent_idx, impf): events x len(cent_idx)
get_mdr(haz, cent_idx, impf) ==
  FromDense(haz.size, Len(cent_idx),
            LAMBDA e, j : impf.mdr[haz.intensity[e][cent_idx[j + 1] + 1] + 1])

\* hazard.get_paa(cent_idx, impf): events x len(cent_idx)
get_paa(haz, cent_idx, impf) ==
  FromDense(haz.size, Len(cent_idx),
            LAMBDA e, j : impf.paa[haz.intensity[e][cent_idx[j + 1] + 1] + 1])

\* hazard.get_fraction(cent_idx): events x len(cent_idx)
get_fraction(haz, cent_idx) ==
  FromDense(haz.size, Len(cent_idx),
            LAMBDA e, j : haz.fraction[e][cent_idx[j + 1] + 1])

\* The rows an exposures table is made of: value >= 0, the centroid the
\* point is (or will be) assigned to, -1 when there is none in reach, the
\* impact function id, deductible >= 0 and cover >= 0. The field near is
\* the centroid the matching of assign_centroids finds for the point; a
\* row built here is assigned to it.
Row(v, c, i, d, k) ==
  [value |-> v, centr |-> c, near |-> c, impf |-> i, deductible |-> d, cover |-> k]

\* exposures.assign_centroids(hazard, overwrite): the centroid column is
\* computed when it is missing or overwrite is set, and kept otherwise
assign_centroids(exp, overwrite) ==
  IF exp.assigned /\ ~overwrite THEN exp
  ELSE [exp EXCEPT !.assigned = TRUE,
                   !.gdf = [i \in 1..Len(exp.gdf) |->
                              [exp.gdf[i] EXCEPT !.centr = exp.gdf[i].near]]]

ExpRows ==
  { Row(2, 0, 1, 1, 3),     \* function 1 at centroid 0
    Row(1, 1, 1, 1, 9),     \* function 1 at centroid 1
    Row(2, 0, 2, 2, 1),     \* function 2 at centroid 0
    Row(0, 0, 3, 1, 5),     \* no value (and a function that is not in the set)
    Row(2, 0 - 1, 2, 1, 5), \* no centroid in reach
    Row(2, 1, NaN, 1, 5),   \* no impact function
    Row(1, 0, 3, 0, 5) }    \* an impact function that is not in the set

RECURSIVE Tables(_)
\* all tables of exactly n rows
Tables(n) ==
  IF n = 0 THEN {<<>>}
  ELSE {Append(t, r) : t \in Tables(n - 1), r \in ExpRows}

ColumnSets == SUBSET {"deductible", "cover"}

\* ------------------------------------------------------------------------
\* Static methods of ImpactCalc
\* ------------------------------------------------------------------------
\* impact_matrix without the fraction (faulty variant, breaks C3)
impact_matrix_NoFraction(haz, exp_values, cent_idx, impf) ==
  MultiplyRow(get_mdr(haz, cent_idx, impf), RowVector(exp_values))

\* ImpactCalc.impact_matrix
impact_matrix(haz, exp_values, cent_idx, impf) ==
  LET mdr == get_mdr(haz, cent_idx, impf)
      fract == get_fraction(haz, cent_idx)
      exp_values_csr == RowVector(exp_values)
  IN MultiplyRow(Multiply(fract, mdr), exp_values_csr)

\* apply_deductible_to_mat adding the deductible (faulty variant, breaks C10)
apply_deductible_to_mat_Added(mat, deductible, haz, cent_idx, impf) ==
  EliminateZeros(
    Subtract(mat, MultiplyRow(get_paa(haz, cent_idx, impf),
                              RowVector([j \in 1..Len(deductible) |-> 0 - deductible[j]]))))

\* ImpactCalc.apply_deductible_to_mat
apply_deductible_to_mat(mat, deductible, haz, cent_idx, impf) ==
  LET paa == get_paa(haz, cent_idx, impf)
  IN EliminateZeros(Subtract(mat, MultiplyRow(paa, RowVector(deductible))))

\* apply_cover_to_mat without the upper limit (faulty variant, breaks C9)
apply_cover_to_mat_NoCap(mat, cover) ==
  EliminateZeros(
    Csr(mat.nrow, mat.ncol, [x \in DOMAIN mat.ent |-> Max2(mat.ent[x], 0)]))

\* ImpactCalc.apply_cover_to_mat
apply_cover_to_mat(mat, cover) ==
  EliminateZeros(
    Csr(mat.nrow, mat.ncol,
        [x \in DOMAIN mat.ent |-> Clip(mat.ent[x], 0, cover[x[2] + 1])]))

\* eai_exp_from_mat without the frequency (faulty variant, breaks C4)
eai_exp_from_mat_NoFreq(mat, freq) ==
  [j \in 1..mat.ncol |->
     SumSet(1..mat.nrow, [e \in 1..mat.nrow |-> Get(mat, e, j - 1)])]

\* ImpactCalc.eai_exp_from_mat
eai_exp_from_mat(mat, freq) ==
  [j \in 1..mat.ncol |->
     SumSet(1..mat.nrow, [e \in 1..mat.nrow |-> Get(mat, e, j - 1) * freq[e]])]

\* at_event_from_mat of the first point alone (faulty variant, breaks C20)
at_event_from_mat_FirstPoint(mat) == [e \in 1..mat.nrow |-> Get(mat, e, 0)]

\* ImpactCalc.at_event_from_mat
at_event_from_mat(mat) ==
  [e \in 1..mat.nrow |->
     SumSet(0..(mat.ncol - 1), [j \in 0..(mat.ncol - 1) |-> Get(mat, e, j)])]

\* aai_agg_from_eai_exp without the last point (faulty variant, breaks C5)
aai_agg_from_eai_exp_ButLast(eai_exp) ==
  IF eai_exp = <<>> THEN 0 ELSE SumSeq(SubSeq(eai_exp, 1, Len(eai_exp) - 1))

\* ImpactCalc.aai_agg_from_eai_exp
aai_agg_from_eai_exp(eai_exp) == SumSeq(eai_exp)

\* ImpactCalc.risk_metrics
risk_metrics(mat, freq) ==
  LET eai_exp == eai_exp_from_mat(mat, freq)
      at_event == at_event_from_mat(mat)
      aai_agg == aai_agg_from_eai_exp(eai_exp)
  IN [at_event |-> at_event, eai_exp |-> eai_exp, aai_agg |-> aai_agg]

\* array_split in pieces of len \div n, the remainder lost (faulty variant,
\* breaks C2)
array_split_NoExtras(ary, n) ==
  [k \in 1..n |-> SubSeq(ary, (k - 1) * (Len(ary) \div n) + 1, k * (Len(ary) \div n))]

\* np.array_split(ary, n) for n > 0: the first len % n pieces have one
\* element more than the others
array_split(ary, n) ==
  LET each == Len(ary) \div n
      extras == Len(ary) % n
  IN [k \in 1..n |->
        SubSeq(ary, (k - 1) * each + Min2(k - 1, extras) + 1,
                    k * each + Min2(k, extras))]

\* the ValueError raised by _chunk_exp_idx, and the one np.array_split
\* raises when asked for no piece at all
HazardTooLarge == "ValueError: Hazard size exceeds maximum matrix size"
NoSections == "ValueError: number sections must be larger than 0."

\* _chunk_exp_idx without the test of the hazard size (faulty variant,
\* breaks C14)
_chunk_exp_idx_NoLimit(haz_size, idx_exp_impf, max_size) ==
  LET n_chunks == Ceil(haz_size * Len(idx_exp_impf), max_size)
  IN IF n_chunks <= 0 THEN [error |-> NoSections, chunks |-> <<>>]
     ELSE [error |-> "", chunks |-> array_split(idx_exp_impf, n_chunks)]

\* imp_mat_gen._chunk_exp_idx: the pieces, or the error raised
_chunk_exp_idx(haz_size, idx_exp_impf, max_size) ==
  IF haz_size > max_size THEN [error |-> HazardTooLarge, chunks |-> <<>>]
  ELSE LET n_chunks == Ceil(haz_size * Len(idx_exp_impf), max_size)
       IN IF n_chunks <= 0 THEN [error |-> NoSections, chunks |-> <<>>]
          ELSE [error |-> "", chunks |-> array_split(idx_exp_impf, n_chunks)]

\* ------------------------------------------------------------------------
\* State
\* ------------------------------------------------------------------------
VARIABLES
  exposures,        \* self.exposures: gdf (the rows), columns (which of
                    \* deductible and cover exist), assigned (whether the
                    \* centroid column of the hazard exists)
  hazard,           \* self.hazard
  impfset,          \* self.impfset
  max_matrix_size,  \* CONFIG.max_matrix_size
  orig_exp_idx,     \* self._orig_exp_idx
  frames,           \* the calls of impact() / insured_impact() in progress,
                    \* one frame per caller
  calls             \* how often each collaborator operation has been
                    \* invoked, and how many pairs imp_mat_gen has yielded

vars == <<exposures, hazard, impfset, max_matrix_size, orig_exp_idx, frames, calls>>

\* nothing has been invoked yet
NoCalls ==
  [assign_centroids |-> 0, get_func |-> 0, get_mdr |-> 0, get_fraction |-> 0,
   get_paa |-> 0, yielded |-> 0,
   overwrite |-> 0,        \* calls of assign_centroids with overwrite = True
   stop_iteration |-> 0]   \* pulls the generator has answered with StopIteration

\* the body of imp_mat_gen for one chunk: impact_matrix asks the hazard for
\* the mdr and the fraction, and the pair is yielded
CallsOfChunk(k) ==
  [k EXCEPT !.get_mdr = @ + 1, !.get_fraction = @ + 1, !.yielded = @ + 1]

Callers == {"main", "other"}

IdleFrame ==
  [pc |-> "idle", insured |-> FALSE, save_mat |-> FALSE,
   exp_gdf |-> <<>>,                       \* the filtered view
   ids |-> <<>>, chunks |-> <<>>,          \* imp_mat_gen: groups and chunks to come
   impf_id |-> NaN,                        \* imp_mat_gen: the group in progress
   cur |-> <<>>,                           \* the pair (mat, exp_idx) just yielded
   held |-> <<>>,                          \* stitch_risk_metrics: the pair its loop variables are bound to
   own_idx |-> <<>>,                       \* minimal_exp_gdf: mask.nonzero()[0] of this call
   at_event |-> <<>>, eai_exp |-> <<>>,    \* stitch_risk_metrics accumulators
   parts |-> <<>>,                         \* stitch_impact_matrix: (data, row, col) per chunk
   result |-> <<>>, error |-> ""]

\* ImpactCalc.n_exp_pnt, ImpactCalc.n_events
n_exp_pnt == Len(exposures.gdf)
n_events == hazard.size

\* ImpactCalc.deductible, ImpactCalc.cover: the column, <<>> inside a
\* one-element sequence, or the empty sequence for None
deductible ==
  IF "deductible" \in exposures.columns
  THEN << [i \in 1..n_exp_pnt |-> exposures.gdf[i].deductible] >> ELSE <<>>
cover ==
  IF "cover" \in exposures.columns
  THEN << [i \in 1..n_exp_pnt |-> exposures.gdf[i].cover] >> ELSE <<>>

\* ------------------------------------------------------------------------
\* ImpactCalc.minimal_exp_gdf
\* ------------------------------------------------------------------------
\* the mask without the test of the value (faulty variant, breaks C7)
ExpMask_AnyValue(gdf) == [i \in 1..Len(gdf) |-> gdf[i].centr >= 0]

ExpMask(gdf) == [i \in 1..Len(gdf) |-> gdf[i].value # 0 /\ gdf[i].centr >= 0]

\* the rows of the mask, reduced to value, impf and centr
MinimalGdf(gdf) ==
  LET kept == Nonzero(ExpMask(gdf))
  IN [k \in 1..Len(kept) |->
        [value |-> gdf[kept[k] + 1].value,
         impf |-> gdf[kept[k] + 1].impf,
         centr |-> gdf[kept[k] + 1].centr]]

\* Impact.from_eih: the result object; imp_mat is <<>> for None
from_eih(at_event, eai_exp, aai_agg, imp_mat) ==
  [at_event |-> at_event, eai_exp |-> eai_exp, aai_agg |-> aai_agg,
   imp_mat |-> imp_mat]

\* _return_empty with the two lengths exchanged (faulty variant, breaks C11)
_return_empty_Swapped(save_mat) ==
  from_eih(Zeros(n_exp_pnt), Zeros(n_events), 0,
           IF save_mat THEN << Csr(n_exp_pnt, n_events, << >>) >> ELSE <<>>)

\* ImpactCalc._return_empty
_return_empty(save_mat) ==
  from_eih(Zeros(n_events), Zeros(n_exp_pnt), 0,
           IF save_mat THEN << Csr(n_events, n_exp_pnt, << >>) >> ELSE <<>>)

RECURSIVE UniqueFrom(_, _)
\* exp_gdf[impf_col].dropna().unique(): the ids in order of first appearance
UniqueFrom(exp_gdf, seen) ==
  IF exp_gdf = <<>> THEN <<>>
  ELSE LET i == Head(exp_gdf).impf
       IN IF i = NaN \/ i \in seen THEN UniqueFrom(Tail(exp_gdf), seen)
          ELSE <<i>> \o UniqueFrom(Tail(exp_gdf), seen \cup {i})

\* the non-null ids of the view without unique() (faulty variant, breaks C29)
UniqueImpf_Twice(exp_gdf) ==
  LET at == Nonzero([k \in 1..Len(exp_gdf) |-> exp_gdf[k].impf # NaN])
  IN [j \in 1..Len(at) |-> exp_gdf[at[j] + 1].impf]

UniqueImpf(exp_gdf) == UniqueFrom(exp_gdf, {})

\* the group of an id taken to be the whole view (faulty variant, breaks C28)
IdxExpImpf_All(exp_gdf, impf_id) == Nonzero([k \in 1..Len(exp_gdf) |-> TRUE])

\* (exp_gdf[impf_col].values == impf_id).nonzero()[0]
IdxExpImpf(exp_gdf, impf_id) ==
  Nonzero([k \in 1..Len(exp_gdf) |-> exp_gdf[k].impf = impf_id])

\* the body of impact() and insured_impact() from minimal_exp_gdf to the
\* entry of _return_impact: the view is built, the mapping stored, and
\* either the empty result returned or the generator created
\* assign_centroids asked to overwrite (faulty variant, breaks C26)
OverwriteArg_True == TRUE

\* the argument overwrite of the call of assign_centroids in minimal_exp_gdf
OverwriteArg == FALSE

\* the calls after assign_centroids has been invoked by minimal_exp_gdf
CallsOfAssign(k) ==
  [k EXCEPT !.assign_centroids = @ + 1,
            !.overwrite = @ + (IF OverwriteArg THEN 1 ELSE 0)]

\* the mapping left in place by the view build (faulty variant, breaks C27)
StoredMapping_Stale(own) == orig_exp_idx

\* self._orig_exp_idx = mask.nonzero()[0]
StoredMapping(own) == own

StartCall(c, insured, save_mat) ==
  LET exp == assign_centroids(exposures, OverwriteArg)
      exp_gdf == MinimalGdf(exp.gdf)
      own == Nonzero(ExpMask(exp.gdf))
  IN /\ exposures' = exp
     /\ orig_exp_idx' = StoredMapping(own)
     /\ frames' = [frames EXCEPT ![c] =
          IF Len(exp_gdf) = 0
          THEN [IdleFrame EXCEPT !.pc = "done", !.insured = insured,
                                 !.save_mat = save_mat,
                                 !.own_idx = own,
                                 !.result = << _return_empty(save_mat) >>]
          ELSE [IdleFrame EXCEPT !.pc = "pull", !.insured = insured,
                                 !.save_mat = save_mat,
                                 !.own_idx = own,
                                 !.exp_gdf = exp_gdf,
                                 !.ids = UniqueImpf(exp_gdf),
                                 !.at_event = IF save_mat THEN <<>> ELSE Zeros(n_events),
                                 !.eai_exp = IF save_mat THEN <<>> ELSE Zeros(n_exp_pnt)]]
     /\ calls' = CallsOfAssign(calls)
     /\ UNCHANGED <<hazard, impfset, max_matrix_size>>

\* ImpactCalc.impact
impact(c, save_mat) ==
  /\ frames[c].pc = "idle"
  /\ StartCall(c, FALSE, save_mat)

\* insured_impact that looks for the columns only after the view has been
\* built (faulty variant, breaks C12)
insured_impact_LateCheck(c, save_mat) ==
  /\ frames[c].pc = "idle"
  /\ IF cover = <<>> /\ deductible = <<>>
     THEN /\ exposures' = assign_centroids(exposures, OverwriteArg)
          /\ orig_exp_idx' = Nonzero(ExpMask(exposures'.gdf))
          /\ calls' = CallsOfAssign(calls)
          /\ frames' = [frames EXCEPT ![c] =
                [IdleFrame EXCEPT !.pc = "error", !.insured = TRUE,
                                  !.save_mat = save_mat,
                                  !.error = "AttributeError"]]
          /\ UNCHANGED <<hazard, impfset, max_matrix_size>>
     ELSE StartCall(c, TRUE, save_mat)

\* ImpactCalc.insured_impact
insured_impact(c, save_mat) ==
  /\ frames[c].pc = "idle"
  /\ IF cover = <<>> /\ deductible = <<>>
     THEN /\ frames' = [frames EXCEPT ![c] =
                [IdleFrame EXCEPT !.pc = "error", !.insured = TRUE,
                                  !.save_mat = save_mat,
                                  !.error = "AttributeError"]]
          /\ UNCHANGED <<exposures, hazard, impfset, max_matrix_size, orig_exp_idx, calls>>
     ELSE StartCall(c, TRUE, save_mat)

\* ------------------------------------------------------------------------
\* ImpactCalc.imp_mat_gen: one pull of the generator
\* ------------------------------------------------------------------------
Fail(c, err) ==
  frames' = [frames EXCEPT ![c].pc = "error", ![c].error = err, ![c].cur = <<>>,
                           ![c].held = <<>>]

\* the pair yielded for the chunk exp_idx of the group of impact function impf
ChunkPair(exp_gdf, exp_idx, impf) ==
  LET exp_values == Take([k \in 1..Len(exp_gdf) |-> exp_gdf[k].value], exp_idx)
      cent_idx == Take([k \in 1..Len(exp_gdf) |-> exp_gdf[k].centr], exp_idx)
  IN [mat |-> impact_matrix(hazard, exp_values, cent_idx, impf), idx |-> exp_idx]

\* the terms applied whenever the table has them (faulty variant, breaks C22)
YieldPc_InsuredIfTerms(f) ==
  IF f.insured \/ exposures.columns = {"deductible", "cover"}
  THEN "inner" ELSE "yielded"

\* where a yielded pair goes next: through insured_mat_gen or to the consumer
YieldPc(f) == IF f.insured THEN "inner" ELSE "yielded"

\* the generator resumes inside the loop over the chunks of the current group
ImpMatGenNextChunk(c) ==
  LET f == frames[c]
  IN /\ f.pc = "pull"
     /\ f.chunks # <<>>
     /\ frames' = [frames EXCEPT ![c] =
          [f EXCEPT !.pc = YieldPc(f),
                    !.chunks = Tail(f.chunks),
                    !.cur = << ChunkPair(f.exp_gdf, Head(f.chunks),
                                         get_func(impfset, f.impf_id)) >>]]
     /\ calls' = CallsOfChunk(calls)
     /\ UNCHANGED <<exposures, hazard, impfset, max_matrix_size, orig_exp_idx>>

\* the loop over the impact function ids passing over an id that is not in
\* the set (faulty variant, breaks C15)
ImpMatGenNextGroup_SkipUnknown(c) ==
  LET f == frames[c]
      impf_id == Head(f.ids)
      idx_exp_impf == IdxExpImpf(f.exp_gdf, impf_id)
      planned == _chunk_exp_idx(hazard.size, idx_exp_impf, max_matrix_size)
  IN /\ f.pc = "pull"
     /\ f.chunks = <<>>
     /\ f.ids # <<>>
     /\ IF ~HasFunc(impfset, impf_id)
        THEN frames' = [frames EXCEPT ![c].ids = Tail(f.ids)]
        ELSE IF planned.error # "" THEN Fail(c, planned.error)
        ELSE frames' = [frames EXCEPT ![c] =
               [f EXCEPT !.pc = YieldPc(f),
                         !.ids = Tail(f.ids),
                         !.impf_id = impf_id,
                         !.chunks = Tail(planned.chunks),
                         !.cur = << ChunkPair(f.exp_gdf, Head(planned.chunks),
                                              get_func(impfset, impf_id)) >>]]
     /\ calls' = IF HasFunc(impfset, impf_id) /\ planned.error = ""
                 THEN CallsOfChunk([calls EXCEPT !.get_func = @ + 1])
                 ELSE [calls EXCEPT !.get_func = @ + 1]
     /\ UNCHANGED <<exposures, hazard, impfset, max_matrix_size, orig_exp_idx>>

\* the generator (re)enters the loop over the impact function ids
ImpMatGenNextGroup(c) ==
  LET f == frames[c]
      impf_id == Head(f.ids)
      idx_exp_impf == IdxExpImpf(f.exp_gdf, impf_id)
      planned == _chunk_exp_idx(hazard.size, idx_exp_impf, max_matrix_size)
  IN /\ f.pc = "pull"
     /\ f.chunks = <<>>
     /\ f.ids # <<>>
     /\ IF ~HasFunc(impfset, impf_id) THEN Fail(c, "LookupError")
        ELSE IF planned.error # "" THEN Fail(c, planned.error)
        ELSE frames' = [frames EXCEPT ![c] =
               [f EXCEPT !.pc = YieldPc(f),
                         !.ids = Tail(f.ids),
                         !.impf_id = impf_id,
                         !.chunks = Tail(planned.chunks),
                         !.cur = << ChunkPair(f.exp_gdf, Head(planned.chunks),
                                              get_func(impfset, impf_id)) >>]]
     /\ calls' = IF HasFunc(impfset, impf_id) /\ planned.error = ""
                 THEN CallsOfChunk([calls EXCEPT !.get_func = @ + 1])
                 ELSE [calls EXCEPT !.get_func = @ + 1]
     /\ UNCHANGED <<exposures, hazard, impfset, max_matrix_size, orig_exp_idx>>

\* ------------------------------------------------------------------------
\* ImpactCalc.insured_mat_gen: the body of the loop for the pair pulled
\* ------------------------------------------------------------------------
\* insured_mat_gen with the cover of the position in the filtered view
\* (faulty variant, breaks C8)
InsuredPair_FilteredCover(exp_gdf, pair) ==
  LET exp_idx == pair.idx
      ded == Take(deductible[1], Take(orig_exp_idx, exp_idx))
      cent_idx == Take([k \in 1..Len(exp_gdf) |-> exp_gdf[k].centr], exp_idx)
      impf == get_func(impfset, exp_gdf[exp_idx[1] + 1].impf)
      mat1 == apply_deductible_to_mat(pair.mat, ded, hazard, cent_idx, impf)
  IN [mat |-> apply_cover_to_mat(mat1, Take(cover[1], exp_idx)), idx |-> exp_idx]

InsuredPair(exp_gdf, pair) ==
  LET exp_idx == pair.idx
      impf_id == exp_gdf[exp_idx[1] + 1].impf
      ded == Take(deductible[1], Take(orig_exp_idx, exp_idx))
      cent_idx == Take([k \in 1..Len(exp_gdf) |-> exp_gdf[k].centr], exp_idx)
      impf == get_func(impfset, impf_id)
      mat1 == apply_deductible_to_mat(pair.mat, ded, hazard, cent_idx, impf)
      cov == Take(cover[1], Take(orig_exp_idx, exp_idx))
  IN [mat |-> apply_cover_to_mat(mat1, cov), idx |-> exp_idx]

\* whether idx can index arr (no IndexError)
InRange(arr, idx) == \A j \in 1..Len(idx) : idx[j] + 1 \in 1..Len(arr)

insured_mat_gen(c) ==
  LET f == frames[c]
      pair == f.cur[1]
  IN /\ f.pc = "inner"
     /\ IF Len(pair.idx) = 0 \/ ~InRange(orig_exp_idx, pair.idx)
        THEN Fail(c, "IndexError") /\ UNCHANGED calls
        ELSE IF deductible = <<>>
        THEN Fail(c, "TypeError") /\ UNCHANGED calls
        ELSE IF ~InRange(deductible[1], Take(orig_exp_idx, pair.idx))
        THEN Fail(c, "IndexError") /\ UNCHANGED calls
        ELSE /\ calls' = [calls EXCEPT !.get_func = @ + 1, !.get_paa = @ + 1]
             /\ IF cover = <<>> THEN Fail(c, "TypeError")
                ELSE frames' = [frames EXCEPT ![c] =
                       [f EXCEPT !.pc = "yielded",
                                 !.cur = << InsuredPair(f.exp_gdf, pair) >>]]
     /\ UNCHANGED <<exposures, hazard, impfset, max_matrix_size, orig_exp_idx>>

\* ------------------------------------------------------------------------
\* The consumers: stitch_impact_matrix and stitch_risk_metrics
\* ------------------------------------------------------------------------
\* eai_exp[positions] += add (numpy: with a repeated position the last wins)
AddAt(eai_exp, positions, add) ==
  [p \in 1..Len(eai_exp) |->
     LET js == {j \in 1..Len(positions) : positions[j] + 1 = p}
     IN IF js = {} THEN eai_exp[p]
        ELSE eai_exp[p] + add[CHOOSE j \in js : \A k \in js : k <= j]]

\* a consumer that keeps every pair it was handed (faulty variant, breaks
\* C24)
Bound_KeepAll(f, pair) == Append(f.held, pair)

\* the loop variables sub_imp_mat, idx of stitch_risk_metrics after the
\* iteration for pair: a for loop leaves its variables bound to the last
\* item until the next item is handed over
Bound(f, pair) == << pair >>

\* at_event assigned instead of accumulated (faulty variant, breaks C30)
StreamPair_LastChunk(f, pair) ==
  [f EXCEPT !.pc = "pull", !.cur = <<>>, !.held = Bound(f, pair),
            !.at_event = at_event_from_mat(pair.mat),
            !.eai_exp = AddAt(f.eai_exp, Take(orig_exp_idx, pair.idx),
                              eai_exp_from_mat(pair.mat, hazard.frequency))]

\* the loop body of stitch_risk_metrics for one pair
StreamPair(f, pair) ==
  [f EXCEPT !.pc = "pull", !.cur = <<>>, !.held = Bound(f, pair),
            !.at_event = [e \in 1..Len(f.at_event) |->
                            f.at_event[e] + at_event_from_mat(pair.mat)[e]],
            !.eai_exp = AddAt(f.eai_exp, Take(orig_exp_idx, pair.idx),
                              eai_exp_from_mat(pair.mat, hazard.frequency))]

\* the chunk columns left in the numbering of the filtered view (faulty
\* variant, breaks C23)
StitchPart_FilteredColumn(pair) ==
  [data |-> [x \in NonzeroCoords(pair.mat) |-> pair.mat.ent[x]],
   col |-> pair.idx]

\* the element of the list of stitch_impact_matrix for one pair: the data
\* of the entries, by their row and chunk column, and the column of the
\* final matrix each chunk column goes to
StitchPart(pair) ==
  [data |-> [x \in NonzeroCoords(pair.mat) |-> pair.mat.ent[x]],
   col |-> Take(orig_exp_idx, pair.idx)]

Consume(c) ==
  LET f == frames[c]
      pair == f.cur[1]
  IN /\ f.pc = "yielded"
     /\ IF ~InRange(orig_exp_idx, pair.idx) THEN Fail(c, "IndexError")
        ELSE IF f.save_mat
        THEN frames' = [frames EXCEPT ![c] =
               [f EXCEPT !.pc = "pull", !.cur = <<>>,
                         !.parts = Append(f.parts, StitchPart(pair))]]
        ELSE IF Len(f.at_event) # pair.mat.nrow
                \/ ~InRange(f.eai_exp, Take(orig_exp_idx, pair.idx))
        THEN Fail(c, "ValueError")
        ELSE frames' = [frames EXCEPT ![c] = StreamPair(f, pair)]
     /\ UNCHANGED <<exposures, hazard, impfset, max_matrix_size, orig_exp_idx, calls>>

RECURSIVE SumParts(_, _, _)
\* the sum of the data of all parts that go to row e, column p (0-based)
SumParts(parts, e, p) ==
  IF parts = <<>> THEN 0
  ELSE LET part == Head(parts)
           here == {x \in DOMAIN part.data : x[1] = e /\ part.col[x[2] + 1] = p}
       IN SumSet(here, part.data) + SumParts(Tail(parts), e, p)

\* sparse.csr_matrix((data, (row, col)), shape): entries at the same
\* position are added
csr_matrix(parts, nrow, ncol) ==
  LET at == UNION {{<<x[1], parts[i].col[x[2] + 1]>> : x \in DOMAIN parts[i].data} :
                     i \in DOMAIN parts}
  IN Csr(nrow, ncol, [y \in at |-> SumParts(parts, y[1], y[2])])

\* whether every entry of the parts fits the shape
FitsShape(parts, nrow, ncol) ==
  \A i \in DOMAIN parts : \A x \in DOMAIN parts[i].data :
     x[1] \in 1..nrow /\ parts[i].col[x[2] + 1] \in 0..(ncol - 1)

\* stitch_impact_matrix with the width of the filtered view (faulty variant,
\* breaks C6)
stitch_impact_matrix_ViewWidth(parts) == csr_matrix(parts, n_events, Len(orig_exp_idx))

\* the ValueError np.hstack raises for the empty list
NothingToStack == "ValueError: need at least one array to concatenate"

\* ImpactCalc.stitch_impact_matrix once the generator is exhausted
stitch_impact_matrix(parts) == csr_matrix(parts, n_events, n_exp_pnt)

\* the generator is exhausted: the consumer leaves its loop and
\* _return_impact returns the result
Finish(c) ==
  LET f == frames[c]
      imp_mat == stitch_impact_matrix(f.parts)
      m == risk_metrics(imp_mat, hazard.frequency)
  IN /\ f.pc = "pull"
     /\ f.chunks = <<>>
     /\ f.ids = <<>>
     /\ IF f.save_mat
        THEN IF f.parts = <<>> THEN Fail(c, NothingToStack)
             ELSE IF ~FitsShape(f.parts, n_events, n_exp_pnt)
             THEN Fail(c, "ValueError")
             ELSE frames' = [frames EXCEPT ![c] =
                    [f EXCEPT !.pc = "done",
                              !.result = << from_eih(m.at_event, m.eai_exp,
                                                     m.aai_agg, <<imp_mat>>) >>]]
        ELSE frames' = [frames EXCEPT ![c] =
               [f EXCEPT !.pc = "done", !.held = <<>>,
                         !.result = << from_eih(f.at_event, f.eai_exp,
                                                aai_agg_from_eai_exp(f.eai_exp),
                                                <<>>) >>]]
     /\ calls' = [calls EXCEPT !.stop_iteration = @ + 1]
     /\ UNCHANGED <<exposures, hazard, impfset, max_matrix_size, orig_exp_idx>>

\* ------------------------------------------------------------------------
\* Specification: one caller computes one impact
\* ------------------------------------------------------------------------
Init ==
  /\ exposures \in [gdf : UNION {Tables(n) : n \in 0..MaxExp},
                    columns : ColumnSets,
                    assigned : {FALSE}]
  /\ hazard \in Hazards
  /\ impfset = ImpfSet
  /\ max_matrix_size \in 1..MaxCells
  /\ orig_exp_idx = Arange(Len(exposures.gdf))
  /\ frames = [c \in Callers |-> IdleFrame]
  /\ calls = NoCalls

Next ==
  \/ \E save_mat \in BOOLEAN : impact("main", save_mat)
  \/ \E save_mat \in BOOLEAN : insured_impact("main", save_mat)
  \/ ImpMatGenNextChunk("main")
  \/ ImpMatGenNextGroup("main")
  \/ insured_mat_gen("main")
  \/ Consume("main")
  \/ Finish("main")

Spec == Init /\ [][Next]_vars

\* ------------------------------------------------------------------------
\* A whole call as one function of its arguments and of max_matrix_size:
\* what impact(save_mat) or insured_impact(save_mat) comes to when it runs
\* alone on the exposures, hazard and impact function set of the state
\* ------------------------------------------------------------------------
RECURSIVE GenPairs(_, _, _)
\* the pairs imp_mat_gen yields for the groups ids, in order
GenPairs(exp_gdf, ids, max_size) ==
  IF ids = <<>> THEN <<>>
  ELSE LET impf_id == Head(ids)
           planned == _chunk_exp_idx(hazard.size, IdxExpImpf(exp_gdf, impf_id), max_size)
       IN [k \in 1..Len(planned.chunks) |->
             ChunkPair(exp_gdf, planned.chunks[k], get_func(impfset, impf_id))]
          \o GenPairs(exp_gdf, Tail(ids), max_size)

RECURSIVE PlannedIdx(_, _)
\* the index arrays imp_mat_gen yields for the groups ids, in order
PlannedIdx(exp_gdf, ids) ==
  IF ids = <<>> THEN <<>>
  ELSE _chunk_exp_idx(hazard.size, IdxExpImpf(exp_gdf, Head(ids)), max_matrix_size).chunks
       \o PlannedIdx(exp_gdf, Tail(ids))

\* whether imp_mat_gen raises for one of the groups
GenRaises(exp_gdf, max_size) ==
  \E k \in DOMAIN UniqueImpf(exp_gdf) :
     LET impf_id == UniqueImpf(exp_gdf)[k]
     IN \/ ~HasFunc(impfset, impf_id)
        \/ _chunk_exp_idx(hazard.size, IdxExpImpf(exp_gdf, impf_id), max_size).error # ""

RECURSIVE StreamAll(_, _)
\* stitch_risk_metrics: the accumulators after the pairs
StreamAll(f, pairs) ==
  IF pairs = <<>> THEN f ELSE StreamAll(StreamPair(f, Head(pairs)), Tail(pairs))

\* ImpactCalc._return_impact on the pairs of a generator that raises nothing
_return_impact(pairs, save_mat) ==
  IF save_mat
  THEN IF pairs = <<>> THEN [pc |-> "error", result |-> <<>>]
       ELSE LET imp_mat == stitch_impact_matrix([k \in DOMAIN pairs |-> StitchPart(pairs[k])])
                m == risk_metrics(imp_mat, hazard.frequency)
            IN [pc |-> "done",
                result |-> << from_eih(m.at_event, m.eai_exp, m.aai_agg, <<imp_mat>>) >>]
  ELSE LET f == StreamAll([IdleFrame EXCEPT !.at_event = Zeros(n_events),
                                            !.eai_exp = Zeros(n_exp_pnt)], pairs)
       IN [pc |-> "done",
           result |-> << from_eih(f.at_event, f.eai_exp,
                                  aai_agg_from_eai_exp(f.eai_exp), <<>>) >>]

\* the outcome of the call: pc is "done" with the result, or "error"
Run(insured, save_mat, max_size) ==
  LET exp_gdf == MinimalGdf(exposures.gdf)
      gross == GenPairs(exp_gdf, UniqueImpf(exp_gdf), max_size)
  IN IF insured /\ cover = <<>> /\ deductible = <<>>
     THEN [pc |-> "error", result |-> <<>>]
     ELSE IF Len(exp_gdf) = 0
     THEN [pc |-> "done", result |-> << _return_empty(save_mat) >>]
     ELSE IF GenRaises(exp_gdf, max_size)
     THEN [pc |-> "error", result |-> <<>>]
     ELSE IF ~insured THEN _return_impact(gross, save_mat)
     ELSE IF gross # <<>> /\ (cover = <<>> \/ deductible = <<>>)
     THEN [pc |-> "error", result |-> <<>>]
     ELSE _return_impact([k \in DOMAIN gross |-> InsuredPair(exp_gdf, gross[k])],
                         save_mat)

\* ------------------------------------------------------------------------
\* The call of the caller "main"
\* ------------------------------------------------------------------------
Main == frames["main"]
Returned == Main.pc = "done"
Raised == Main.pc = "error"
Ended == Returned \/ Raised
Res == Main.result[1]
Outcome == [pc |-> Main.pc, result |-> Main.result]

\* the steps and the function agree on every call that has ended
RunIsOutcome == Ended => Outcome = Run(Main.insured, Main.save_mat, max_matrix_size)

\* ------------------------------------------------------------------------
\* What the claims speak of, in terms of the inputs
\* ------------------------------------------------------------------------
Points == 0..(n_exp_pnt - 1)
Events == 1..n_events
PointRow(p) == exposures.gdf[p + 1]

\* the points of the filtered view, and those of them with an impact function
Kept == {p \in Points : PointRow(p).value # 0 /\ PointRow(p).centr >= 0}
KeptWithImpf == {p \in Kept : PointRow(p).impf # NaN}

\* fraction, mean damage ratio and probability of affection of event e at
\* the centroid of point p, for the impact function of p
FractionAt(e, p) == hazard.fraction[e][PointRow(p).centr + 1]
MdrAt(e, p) ==
  impfset[PointRow(p).impf].mdr[hazard.intensity[e][PointRow(p).centr + 1] + 1]
PaaAt(e, p) ==
  impfset[PointRow(p).impf].paa[hazard.intensity[e][PointRow(p).centr + 1] + 1]

GrossAt(e, p) ==
  IF p \in KeptWithImpf THEN FractionAt(e, p) * MdrAt(e, p) * PointRow(p).value ELSE 0

InsuredAt(e, p) ==
  IF p \in KeptWithImpf
  THEN Min2(Max2(GrossAt(e, p) - PaaAt(e, p) * PointRow(p).deductible, 0),
            PointRow(p).cover)
  ELSE 0

\* the metrics of an outcome, without the matrix
Metrics(out) ==
  [pc |-> out.pc,
   metrics |-> IF out.pc = "done"
               THEN << [at_event |-> out.result[1].at_event,
                        eai_exp |-> out.result[1].eai_exp,
                        aai_agg |-> out.result[1].aai_agg] >>
               ELSE <<>>]

\* the number of chunks the groups of the view were planned into
NumChunks == Len(GenPairs(Main.exp_gdf, UniqueImpf(Main.exp_gdf), max_matrix_size))

\* ------------------------------------------------------------------------
\* C1: for the same exposures, hazard and impact function set, the
\* streaming mode (save_mat false) and the materialize mode (save_mat true)
\* return the same at_event, eai_exp and aai_agg, for impact() and for
\* insured_impact(): the call that has ended ends as the call in the other
\* mode does, with the same metrics.
\* ------------------------------------------------------------------------
C1_ModesAgree ==
  Ended => Metrics(Outcome)
             = Metrics(Run(Main.insured, ~Main.save_mat, max_matrix_size))

\* ------------------------------------------------------------------------
\* C2: chunk-invariance: every max_matrix_size that is at least the event
\* count gives the same at_event, eai_exp, aai_agg and matrix (or the same
\* failure): whatever the budget the call ran with, it ends as a function
\* of the exposures, the hazard and the impact function set alone says,
\* in which neither the budget nor a chunk occurs.
\* ------------------------------------------------------------------------
EntryOf(insured, e, p) == IF insured THEN InsuredAt(e, p) ELSE GrossAt(e, p)

\* whether the call fails, given that the hazard fits the budget
FailsWhateverBudget(insured, save_mat) ==
  \/ insured /\ exposures.columns = {}
  \/ /\ Kept # {}
     /\ \/ \E p \in KeptWithImpf : PointRow(p).impf \notin DOMAIN impfset
        \/ KeptWithImpf # {} /\ n_events = 0
        \/ insured /\ KeptWithImpf # {} /\ exposures.columns # {"deductible", "cover"}
        \/ save_mat /\ KeptWithImpf = {}

\* the result of the call, if it does not fail
ResultWhateverBudget(insured, save_mat) ==
  LET eai == [k \in 1..n_exp_pnt |->
                SumSet(Events, [e \in Events |->
                                  hazard.frequency[e] * EntryOf(insured, e, k - 1)])]
      nz == {x \in Coords(n_events, n_exp_pnt) : EntryOf(insured, x[1], x[2]) # 0}
  IN [at_event |-> [e \in 1..n_events |->
                      SumSet(Points, [p \in Points |-> EntryOf(insured, e, p)])],
      eai_exp |-> eai,
      aai_agg |-> SumSeq(eai),
      imp_mat |-> IF save_mat
                  THEN << Csr(n_events, n_exp_pnt,
                              [x \in nz |-> EntryOf(insured, x[1], x[2])]) >>
                  ELSE <<>>]

C2_ChunkInvariance ==
  (Ended /\ max_matrix_size >= n_events)
    => /\ Raised <=> FailsWhateverBudget(Main.insured, Main.save_mat)
       /\ Returned => Res = ResultWhateverBudget(Main.insured, Main.save_mat)

\* a returned call whose groups were split into more chunks than there are
\* groups, while another admissible budget gives another number of chunks
C2_Witness ==
  /\ Returned
  /\ Main.save_mat
  /\ Len(Main.parts) > Len(UniqueImpf(Main.exp_gdf))
  /\ \E m \in 1..MaxCells :
        /\ m >= n_events
        /\ Len(GenPairs(Main.exp_gdf, UniqueImpf(Main.exp_gdf), m)) # Len(Main.parts)
  /\ Res.aai_agg > 0

\* ------------------------------------------------------------------------
\* C3: the gross impact of event e on a filtered point p with an impact
\* function is fraction * mdr * value at the centroid of p, in every
\* sub-matrix yielded by imp_mat_gen (for the points of the chunk) and in
\* the matrix impact() returns.
\* ------------------------------------------------------------------------
C3_GrossProduct ==
  /\ (Main.pc \in {"inner", "yielded"} /\ (Main.pc = "inner" \/ ~Main.insured))
       => LET pair == Main.cur[1]
          IN /\ pair.mat.nrow = n_events
             /\ pair.mat.ncol = Len(pair.idx)
             /\ \A e \in Events : \A j \in 1..Len(pair.idx) :
                  /\ orig_exp_idx[pair.idx[j] + 1] \in KeptWithImpf
                  /\ Get(pair.mat, e, j - 1) = GrossAt(e, orig_exp_idx[pair.idx[j] + 1])
  /\ (Returned /\ ~Main.insured /\ Main.save_mat)
       => \A e \in Events : \A p \in KeptWithImpf :
            Get(Res.imp_mat[1], e, p) = GrossAt(e, p)

\* impact() has returned a matrix with an impact on a point whose position
\* in the filtered view is not its position in the exposures
C3_Witness ==
  /\ Returned /\ ~Main.insured /\ Main.save_mat
  /\ \E e \in Events : \E k \in 1..Len(orig_exp_idx) :
        /\ orig_exp_idx[k] # k - 1
        /\ Get(Res.imp_mat[1], e, orig_exp_idx[k]) > 0
  /\ NumChunks >= 2

\* ------------------------------------------------------------------------
\* C4: in materialize mode the returned metrics are the formulas applied
\* to the returned matrix M and the frequency f: at_event[e] is the sum
\* over the points p of M[e,p], eai_exp[p] the sum over the events e of
\* f[e] * M[e,p].
\* ------------------------------------------------------------------------
C4_MetricsOfMatrix ==
  (Returned /\ Main.save_mat)
    => LET M == Res.imp_mat[1]
       IN /\ \A e \in Events :
               Res.at_event[e] = SumSeq([k \in 1..n_exp_pnt |-> Get(M, e, k - 1)])
          /\ \A p \in Points :
               Res.eai_exp[p + 1]
                 = SumSeq([e \in 1..n_events |-> hazard.frequency[e] * Get(M, e, p)])

\* a matrix with entries in two columns and two rows has been returned
C4_Witness ==
  /\ Returned /\ Main.save_mat
  /\ \E x, y \in DOMAIN Res.imp_mat[1].ent : x[1] # y[1] /\ x[2] # y[2]

\* ------------------------------------------------------------------------
\* C5: every result returned by impact() or insured_impact(), in
\* materialize mode, in streaming mode and on the empty fast path, has
\* aai_agg equal to the sum of eai_exp over all original exposure points.
\* ------------------------------------------------------------------------
C5_AaiIsSumOfEai ==
  Returned => /\ DOMAIN Res.eai_exp = 1..n_exp_pnt
              /\ Res.aai_agg = SumSet(Points, [p \in Points |-> Res.eai_exp[p + 1]])

\* a streamed result with an expected impact on two points
C5_Witness ==
  /\ Returned /\ ~Main.save_mat
  /\ \E p, q \in Points : p # q /\ Res.eai_exp[p + 1] > 0 /\ Res.eai_exp[q + 1] > 0

\* ------------------------------------------------------------------------
\* C6: for any input for which a result is returned, at_event has the
\* length of the hazard event count, eai_exp the length of the number of
\* original exposure points (not of the filtered view), and the matrix,
\* when requested, the shape (event count, original exposure point count).
\* ------------------------------------------------------------------------
C6_Shapes ==
  Returned =>
    /\ DOMAIN Res.at_event = 1..hazard.size
    /\ DOMAIN Res.eai_exp = 1..Len(exposures.gdf)
    /\ Main.save_mat <=> Res.imp_mat # <<>>
    /\ Main.save_mat =>
         /\ Res.imp_mat[1].nrow = hazard.size
         /\ Res.imp_mat[1].ncol = Len(exposures.gdf)
         /\ DOMAIN Res.imp_mat[1].ent \subseteq Coords(hazard.size, Len(exposures.gdf))

\* a matrix has been stitched for a view that is smaller than the exposures
C6_Witness ==
  /\ Returned /\ Main.save_mat
  /\ Main.parts # <<>>
  /\ Len(orig_exp_idx) < Len(exposures.gdf)
  /\ DOMAIN Res.imp_mat[1].ent # {}

\* ------------------------------------------------------------------------
\* C7: an exposure point is kept in the filtered view iff its value is not
\* zero and its centroid index is >= 0; a point that is not kept has an
\* all-zero column in the matrix, eai_exp 0, and adds nothing to at_event
\* or aai_agg: these are the sums over the kept points alone.
\* ------------------------------------------------------------------------
EntryAt(e, p) == IF Main.insured THEN InsuredAt(e, p) ELSE GrossAt(e, p)

C7_ZeroImpactFiltering ==
  /\ (Main.pc # "idle" /\ Main.error # "AttributeError")
       => /\ Range(orig_exp_idx) = Kept
          /\ Len(orig_exp_idx) = Cardinality(Kept)
          /\ Returned \/ Len(Main.exp_gdf) = Cardinality(Kept)
  /\ Returned =>
       /\ \A p \in Points \ Kept :
            /\ Res.eai_exp[p + 1] = 0
            /\ Main.save_mat => \A e \in Events : Get(Res.imp_mat[1], e, p) = 0
       /\ \A e \in Events :
            Res.at_event[e] = SumSet(Kept, [p \in Kept |-> EntryAt(e, p)])
       /\ Res.aai_agg = SumSet(Kept, [p \in Kept |-> Res.eai_exp[p + 1]])

\* a result with an impact, for exposures with a point without value and a
\* point without centroid
C7_Witness ==
  /\ Returned
  /\ \E p, q \in Points \ Kept : PointRow(p).value = 0 /\ PointRow(q).centr < 0
  /\ Res.aai_agg > 0

\* ------------------------------------------------------------------------
\* C8: for every event e and every filtered point at the original row
\* position p, the insured impact is
\* min(max(gross[e,p] - PAA[e,c(p)] * deductible[p], 0), cover[p]) with the
\* deductible and cover of row p of the full exposures, also when the
\* filter has shifted the position of the point: in the matrix returned,
\* and through eai_exp in the streamed result.
\* ------------------------------------------------------------------------
C8_InsuredFormula ==
  (Returned /\ Main.insured) =>
    /\ Main.save_mat =>
         \A e \in Events : \A p \in Kept :
            Get(Res.imp_mat[1], e, p) = InsuredAt(e, p)
    /\ \A p \in Kept :
         Res.eai_exp[p + 1]
           = SumSet(Events, [e \in Events |-> hazard.frequency[e] * InsuredAt(e, p)])

\* an insured impact that the deductible has reduced, on a point whose
\* position in the view is that of a row with another deductible and cover
C8_Witness ==
  /\ Returned /\ Main.insured /\ Main.save_mat
  /\ \E e \in Events : \E k \in 1..Len(orig_exp_idx) :
       LET p == orig_exp_idx[k]
       IN /\ p # k - 1
          /\ PointRow(p).deductible # PointRow(k - 1).deductible
          /\ PointRow(p).cover # PointRow(k - 1).cover
          /\ Get(Res.imp_mat[1], e, p) > 0
          /\ Get(Res.imp_mat[1], e, p) < GrossAt(e, p)

\* ------------------------------------------------------------------------
\* C9: every stored entry of every insured sub-matrix and of the stitched
\* insured matrix is >= 0 and <= the cover of the original exposure point
\* of its column.
\* ------------------------------------------------------------------------
C9_InsuredBounds ==
  /\ (Main.pc = "yielded" /\ Main.insured)
       => LET pair == Main.cur[1]
          IN \A x \in DOMAIN pair.mat.ent :
               /\ 0 <= pair.mat.ent[x]
               /\ pair.mat.ent[x] <= PointRow(orig_exp_idx[pair.idx[x[2] + 1] + 1]).cover
  /\ (Returned /\ Main.insured /\ Main.save_mat)
       => \A x \in DOMAIN Res.imp_mat[1].ent :
            /\ 0 <= Res.imp_mat[1].ent[x]
            /\ Res.imp_mat[1].ent[x] <= PointRow(x[2]).cover

\* an insured sub-matrix with an entry that the cover has capped
C9_Witness ==
  /\ Main.pc = "yielded" /\ Main.insured
  /\ \E x \in DOMAIN Main.cur[1].mat.ent :
       LET p == orig_exp_idx[Main.cur[1].idx[x[2] + 1] + 1]
       IN /\ Main.cur[1].mat.ent[x] = PointRow(p).cover
          /\ GrossAt(x[1], p) - PaaAt(x[1], p) * PointRow(p).deductible > PointRow(p).cover

\* ------------------------------------------------------------------------
\* C10: with deductible >= 0 and cover >= 0, every entry of the insured
\* impact is <= the entry of the gross impact that impact() computes for
\* the same input, and so are the insured at_event, eai_exp and aai_agg.
\* ------------------------------------------------------------------------
NonNegativeTerms ==
  \A p \in Points : PointRow(p).deductible >= 0 /\ PointRow(p).cover >= 0

C10_InsuredBelowGross ==
  (Returned /\ Main.insured /\ NonNegativeTerms) =>
    LET gross == Run(FALSE, Main.save_mat, max_matrix_size)
    IN /\ gross.pc = "done"
       /\ Main.save_mat =>
            \A e \in Events : \A p \in Points :
               Get(Res.imp_mat[1], e, p) <= Get(gross.result[1].imp_mat[1], e, p)
       /\ \A e \in Events : Res.at_event[e] <= gross.result[1].at_event[e]
       /\ \A p \in Points : Res.eai_exp[p + 1] <= gross.result[1].eai_exp[p + 1]
       /\ Res.aai_agg <= gross.result[1].aai_agg

\* an insured result below the gross one and not zero
C10_Witness ==
  /\ Returned /\ Main.insured /\ NonNegativeTerms
  /\ Res.aai_agg > 0
  /\ Res.aai_agg < Run(FALSE, Main.save_mat, max_matrix_size).result[1].aai_agg

C12_ConfigurationError ==
  /\ (Main.pc # "idle" /\ Main.insured /\ exposures.columns = {})
       => Raised /\ Main.error = "AttributeError" /\ Main.result = <<>>
  /\ Main.error = "AttributeError"
       => /\ Main.insured /\ exposures.columns = {}
          /\ ~exposures.assigned
          /\ orig_exp_idx = Arange(n_exp_pnt)
          /\ calls = NoCalls
          /\ Main.exp_gdf = <<>> /\ Main.cur = <<>> /\ Main.parts = <<>>

\* the configuration error for exposures whose view would have dropped a
\* point and kept one with an impact function, and a hazard with events
C12_Witness ==
  /\ Raised /\ Main.error = "AttributeError"
  /\ KeptWithImpf # {} /\ Kept # Points
  /\ n_events > 0

\* ------------------------------------------------------------------------
\* C13: one of deductible and cover is enough for the insured path: with
\* exactly one of the two columns and a filtered view that is not empty,
\* insured_impact() returns a result instead of failing (on an input for
\* which nothing else fails: the hazard has events and fits the budget,
\* and every impact function id of the view is in the set).
\* ------------------------------------------------------------------------
NothingElseFails ==
  /\ KeptWithImpf # {}
  /\ \A p \in KeptWithImpf : HasFunc(impfset, PointRow(p).impf)
  /\ n_events >= 1 /\ n_events <= max_matrix_size

C13_OneTermSuffices ==
  (Ended /\ Main.insured /\ Cardinality(exposures.columns) = 1 /\ NothingElseFails)
    => Returned

\* ------------------------------------------------------------------------
\* C14: when the hazard has more events than max_matrix_size, chunk
\* planning fails with the capacity error (the ValueError of
\* _chunk_exp_idx), and it does so before any impact sub-matrix is
\* computed: get_mdr, get_fraction and get_paa have not been invoked and
\* no chunk has been yielded.  Planning is reached when the view has a
\* point with an impact function and the first such function is in the set.
\* ------------------------------------------------------------------------
FirstImpf == UniqueImpf(MinimalGdf(exposures.gdf))[1]

C14_CapacityError ==
  /\ n_events > max_matrix_size
       => /\ calls.get_mdr = 0 /\ calls.get_fraction = 0 /\ calls.get_paa = 0
          /\ calls.yielded = 0
          /\ Main.cur = <<>> /\ Main.parts = <<>>
          /\ (Ended /\ Main.error # "AttributeError" /\ KeptWithImpf # {}
                /\ HasFunc(impfset, FirstImpf))
               => Raised /\ Main.error = HazardTooLarge /\ Main.result = <<>>
  /\ Main.error = HazardTooLarge
       => n_events > max_matrix_size /\ calls.get_func = 1

\* the capacity error for a view with two points with an impact function
C14_Witness ==
  /\ Raised /\ Main.error = HazardTooLarge
  /\ Cardinality(KeptWithImpf) >= 2
  /\ n_events = max_matrix_size + 1

\* ------------------------------------------------------------------------
\* C15 as stated: if an exposure point references an impact function id
\* that is not in the set, the whole call fails with the lookup error and
\* returns no result (here for impact() with a hazard that has events and
\* fits the budget, so that nothing else can fail).
\* ------------------------------------------------------------------------
C15_AnyPointFails ==
  (Ended /\ ~Main.insured /\ n_events >= 1 /\ n_events <= max_matrix_size
     /\ \E p \in Points : /\ PointRow(p).impf # NaN
                          /\ ~HasFunc(impfset, PointRow(p).impf))
    => Raised /\ Main.error = "LookupError"

\* ------------------------------------------------------------------------
\* C15 amended: if a point of the filtered view references an impact
\* function id that is not in the set, the whole call fails and returns no
\* result, not even a partial one, however many chunks of earlier groups
\* were computed or accumulated; the failure is the lookup error unless the
\* call has failed before the generator reaches the group of that id.  The
\* lookup error is raised for no other reason, and a filtered-out point
\* with such an id makes no call fail.
\* ------------------------------------------------------------------------
BadIds == {PointRow(p).impf : p \in KeptWithImpf} \ DOMAIN impfset

C15_LookupFailsWholeCall ==
  /\ (Ended /\ BadIds # {}) => Raised /\ Main.result = <<>>
  /\ (Ended /\ BadIds # {} /\ Main.error # "AttributeError"
        /\ \/ FirstImpf \in BadIds
           \/ /\ n_events >= 1 /\ n_events <= max_matrix_size
              /\ Main.insured => exposures.columns = {"deductible", "cover"})
       => Main.error = "LookupError"
  /\ Main.error = "LookupError"
       => BadIds # {} /\ Main.result = <<>> /\ Main.cur = <<>>
  /\ (Returned /\ Kept # {}) => BadIds = {}

\* the lookup error after two chunks of an earlier group were yielded and
\* consumed
C15_Witness ==
  /\ Raised /\ Main.error = "LookupError"
  /\ calls.yielded >= 2
  /\ Main.save_mat => Len(Main.parts) >= 2
  /\ ~Main.save_mat => \E e \in Events : Main.at_event[e] > 0

\* ------------------------------------------------------------------------
\* C16 as stated: every chunk respects the memory budget: each yielded
\* chunk satisfies n_events * (number of points in the chunk)
\* <= max_matrix_size.
\* ------------------------------------------------------------------------
Yielding == Main.pc \in {"inner", "yielded"}
ChunkLen == Len(Main.cur[1].idx)

RECURSIVE Concat(_)
\* the pieces one after the other
Concat(pieces) == IF pieces = <<>> THEN <<>> ELSE Head(pieces) \o Concat(Tail(pieces))

\* whether the planner partitions the group of impf_id as C17 says
PartitionsGroup(impf_id) ==
  LET idx == IdxExpImpf(Main.exp_gdf, impf_id)
      planned == _chunk_exp_idx(n_events, idx, max_matrix_size)
      n_chunks == Ceil(n_events * Len(idx), max_matrix_size)
  IN /\ planned.error = ""
     /\ Len(planned.chunks) = n_chunks
     /\ \A i, j \in DOMAIN planned.chunks :
           Len(planned.chunks[i]) - Len(planned.chunks[j]) <= 1
     /\ Concat(planned.chunks) = idx
     /\ (Yielding /\ Main.impf_id = impf_id)
          => \E k \in DOMAIN planned.chunks : planned.chunks[k] = Main.cur[1].idx

C17_ContiguousPartition ==
  (Main.pc # "idle" /\ n_events <= max_matrix_size)
    => \A impf_id \in Range(UniqueImpf(Main.exp_gdf)) : PartitionsGroup(impf_id)

\* C17 for the hazards that have an event: it holds for all of them
PartitionWithEvents ==
  (Main.pc # "idle" /\ n_events >= 1 /\ n_events <= max_matrix_size)
    => \A impf_id \in Range(UniqueImpf(Main.exp_gdf)) : PartitionsGroup(impf_id)

\* ------------------------------------------------------------------------
\* C18: when the computed n_chunks is 0 (a hazard with zero events and a
\* filtered view with a group) the chunk planner yields no chunk and raises
\* no error, so that the computation continues to a result (stated for the
\* streaming mode, in which a call without chunks does return).
\* ------------------------------------------------------------------------
C18_NoChunkNoError ==
  (Main.pc # "idle" /\ Main.error # "AttributeError"
     /\ n_events = 0 /\ KeptWithImpf # {} /\ BadIds = {})
    => /\ calls.yielded = 0
       /\ Main.error # NoSections
       /\ (Ended /\ ~Main.save_mat) => Returned

\* ------------------------------------------------------------------------
\* C19: the filtered points whose impact function id is NaN are in no
\* chunk and contribute zero impact: their column of the matrix is all
\* zero and their eai_exp is 0; when every filtered point has a NaN id,
\* impact() completes with the all-zero result of the right shapes, in
\* materialize mode as well as in streaming mode.
\* ------------------------------------------------------------------------
C19_NullIdsContributeZero ==
  /\ Yielding
       => \A j \in DOMAIN Main.cur[1].idx :
             PointRow(orig_exp_idx[Main.cur[1].idx[j] + 1]).impf # NaN
  /\ Returned
       => \A p \in Kept \ KeptWithImpf :
             /\ Res.eai_exp[p + 1] = 0
             /\ Main.save_mat => \A e \in Events : Get(Res.imp_mat[1], e, p) = 0
  /\ (Ended /\ ~Main.insured /\ Kept # {} /\ KeptWithImpf = {})
       => /\ Returned
          /\ Res.at_event = Zeros(n_events)
          /\ Res.eai_exp = Zeros(n_exp_pnt)
          /\ Res.aai_agg = 0
          /\ Main.save_mat
               => /\ Res.imp_mat # <<>>
                  /\ Res.imp_mat[1].nrow = n_events
                  /\ Res.imp_mat[1].ncol = n_exp_pnt
                  /\ NonzeroCoords(Res.imp_mat[1]) = {}

\* ------------------------------------------------------------------------
\* The example scenario: 2 events of frequency 0.1 and 0.05, 3 exposure
\* points of value 100, 0 and 200, impact function 1 on points 0 and 2 and
\* none on point 1, MDR 0.5, fraction 1.0 and PAA 1.0 at every centroid
\* for both events, deductible 10, 0, 20 and cover 1000, 1000, 30.
\* In whole numbers: the MDR is counted in halves, so that an impact is
\* counted in halves of the unit of the values (and with it deductible and
\* cover, which are taken from impacts), and the frequency in hundredths,
\* so that eai_exp and aai_agg are counted in two-hundredths.
\* ------------------------------------------------------------------------
ExampleHazard ==
  [size |-> 2,
   frequency |-> <<10, 5>>,
   intensity |-> [e \in 1..2 |-> [c \in 1..NCentr |-> 0]],
   fraction |-> [e \in 1..2 |-> [c \in 1..NCentr |-> 1]]]

ExampleImpfSet == [i \in {1} |-> [id |-> 1, mdr |-> <<1, 1, 1>>, paa |-> <<1, 1, 1>>]]

\* the exposures of the example, the points at the centroids c0, c1, c2
ExampleGdf(c0, c1, c2) ==
  << Row(100, c0, 1, 20, 2000), Row(0, c1, NaN, 0, 2000), Row(200, c2, 1, 40, 60) >>

ExampleTables ==
  {ExampleGdf(c0, c1, c2) : c0 \in 0..(NCentr - 1), c1 \in 0..(NCentr - 1),
                            c2 \in 0..(NCentr - 1)}

\* the budgets of the example: every one from the event count on
ExampleBudgets == ExampleHazard.size..(MaxCells + 2)

InitExample ==
  /\ exposures \in [gdf : ExampleTables, columns : ColumnSets, assigned : {FALSE}]
  /\ hazard = ExampleHazard
  /\ impfset = ExampleImpfSet
  /\ max_matrix_size \in ExampleBudgets
  /\ orig_exp_idx = Arange(Len(exposures.gdf))
  /\ frames = [c \in Callers |-> IdleFrame]
  /\ calls = NoCalls

SpecExample == InitExample /\ [][Next]_vars

\* ------------------------------------------------------------------------
\* C20: on the example, impact() returns a matrix whose column 0 is 50 per
\* event, column 1 all zero and column 2 100 per event, at_event =
\* [150, 150], eai_exp = [7.5, 0, 15.0] and aai_agg = 22.5, in both modes
\* and for every admissible max_matrix_size (in the units of the example:
\* 100 and 200 halves per event, [300, 300], [1500, 0, 3000] and 4500).
\* ------------------------------------------------------------------------
C20_GrossExample ==
  (Main.pc # "idle" /\ ~Main.insured) =>
    /\ ~Raised
    /\ Returned =>
         /\ Res.at_event = <<300, 300>>
         /\ Res.eai_exp = <<1500, 0, 3000>>
         /\ Res.aai_agg = 4500
         /\ Main.save_mat <=> Res.imp_mat # <<>>
         /\ Main.save_mat =>
              /\ Res.imp_mat[1].nrow = 2 /\ Res.imp_mat[1].ncol = 3
              /\ \A e \in 1..2 : /\ Get(Res.imp_mat[1], e, 0) = 100
                                  /\ Get(Res.imp_mat[1], e, 1) = 0
                                  /\ Get(Res.imp_mat[1], e, 2) = 200

\* the matrix of the example has been stitched from two chunks
C20_Witness ==
  /\ Returned /\ ~Main.insured /\ Main.save_mat
  /\ hazard = ExampleHazard
  /\ Len(Main.parts) = 2
  /\ Res.aai_agg = 4500

\* ------------------------------------------------------------------------
\* C21: on the example with deductible 10, 0, 20, cover 1000, 1000, 30 and
\* PAA 1.0, insured_impact() gives 40 per event for point 0, 0 for point 1
\* and 30 per event for point 2 (80 clipped to the cover of point 2, not to
\* that of point 1), hence at_event = [70, 70] (in the units of the
\* example: 80, 0 and 60 halves per event and [140, 140]).
\* ------------------------------------------------------------------------
C21_InsuredExample ==
  (Main.pc # "idle" /\ Main.insured /\ exposures.columns = {"deductible", "cover"}) =>
    /\ ~Raised
    /\ Returned =>
         /\ Res.at_event = <<140, 140>>
         /\ Main.save_mat =>
              \A e \in 1..2 : /\ Get(Res.imp_mat[1], e, 0) = 80
                              /\ Get(Res.imp_mat[1], e, 1) = 0
                              /\ Get(Res.imp_mat[1], e, 2) = 60

\* the insured matrix of the example has been stitched from two chunks
C21_Witness ==
  /\ Returned /\ Main.insured /\ Main.save_mat
  /\ hazard = ExampleHazard
  /\ Len(Main.parts) = 2
  /\ Res.at_event = <<140, 140>>

\* ------------------------------------------------------------------------
\* C22: the outcome of impact() is the same for two exposures that differ
\* only in the presence or the values of deductible and cover: it is the
\* outcome of impact() on the table with both terms set to zero, whatever
\* the columns of the exposures are.
\* ------------------------------------------------------------------------
\* the table with the deductible and the cover of every point replaced
WithTerms(gdf, d, k) ==
  [i \in 1..Len(gdf) |-> [gdf[i] EXCEPT !.deductible = d, !.cover = k]]

\* ImpactCalc.impact on the table gdf as a function of its inputs
impact_of(gdf, save_mat, max_size) ==
  LET exp_gdf == MinimalGdf(gdf)
  IN IF Len(exp_gdf) = 0
     THEN [pc |-> "done", result |-> << _return_empty(save_mat) >>]
     ELSE IF GenRaises(exp_gdf, max_size)
     THEN [pc |-> "error", result |-> <<>>]
     ELSE _return_impact(GenPairs(exp_gdf, UniqueImpf(exp_gdf), max_size), save_mat)

C22_TermsIgnored ==
  (Ended /\ ~Main.insured) =>
     Outcome = impact_of(WithTerms(exposures.gdf, 0, 0), Main.save_mat, max_matrix_size)

\* impact() has returned a positive impact for exposures with both terms,
\* one of which changes an entry when insured_impact() applies it
C22_Witness ==
  /\ Returned /\ ~Main.insured
  /\ exposures.columns = {"deductible", "cover"}
  /\ Res.aai_agg > 0
  /\ \E e \in Events, p \in KeptWithImpf : InsuredAt(e, p) # GrossAt(e, p)

\* ------------------------------------------------------------------------
\* C23: in materialize mode every stored entry (e, j) of a chunk with index
\* array idx is at row e, column orig[idx[j]] of the final matrix, with the
\* same value; the final matrix has the shape (n_events, n_exp_pnt) and
\* every stored entry of it comes from the chunk column of its own point.
\* ------------------------------------------------------------------------
\* the column of the final matrix for column j (0-based) of the chunk with
\* the index array idx
OrigColumn(idx, j) == Take(orig_exp_idx, idx)[j + 1]

C23_StitchPlacement ==
  (Returned /\ Main.save_mat) =>
     LET M == Res.imp_mat[1]
         idxs == PlannedIdx(Main.exp_gdf, UniqueImpf(Main.exp_gdf))
         parts == Main.parts
     IN /\ M.nrow = n_events
        /\ M.ncol = n_exp_pnt
        /\ Len(Main.exp_gdf) > 0 =>
             /\ Len(parts) = Len(idxs)
             /\ \A k \in DOMAIN parts : \A x \in DOMAIN parts[k].data :
                   /\ x[2] < Len(idxs[k])
                   /\ parts[k].col[x[2] + 1] = OrigColumn(idxs[k], x[2])
                   /\ Get(M, x[1], OrigColumn(idxs[k], x[2])) = parts[k].data[x]
             /\ \A y \in NonzeroCoords(M) :
                   \E k \in DOMAIN parts : \E x \in DOMAIN parts[k].data :
                       /\ x[1] = y[1]
                       /\ OrigColumn(idxs[k], x[2]) = y[2]
                       /\ PointRow(y[2]).value # 0

\* a matrix stitched from two chunks in which a stored entry belongs to a
\* point whose position in the view is not its position in the exposures
C23_Witness ==
  /\ Returned /\ Main.save_mat
  /\ Len(Main.parts) >= 2
  /\ \E j \in DOMAIN orig_exp_idx :
        /\ orig_exp_idx[j] # j - 1
        /\ \E e \in Events : Get(Res.imp_mat[1], e, orig_exp_idx[j]) > 0

\* ------------------------------------------------------------------------
\* C28: every yielded chunk is non-empty, has n_events rows and as many
\* columns as its index array has entries, and all its points carry the
\* same non-null impact function id, the one of the group being generated
\* and the one insured_mat_gen reads at the chunk's first index.
\* ------------------------------------------------------------------------
\* the impact function id of the point at entry j of the current chunk
ImpfOfChunkPoint(j) == Main.exp_gdf[Main.cur[1].idx[j] + 1].impf

C28_ChunkWellFormed ==
  Yielding =>
     /\ ChunkLen >= 1
     /\ Main.cur[1].mat.nrow = n_events
     /\ Main.cur[1].mat.ncol = ChunkLen
     /\ InRange(Main.exp_gdf, Main.cur[1].idx)
     /\ ImpfOfChunkPoint(1) # NaN
     /\ ImpfOfChunkPoint(1) = Main.impf_id
     /\ \A j \in 1..ChunkLen : ImpfOfChunkPoint(j) = ImpfOfChunkPoint(1)

\* a chunk of two points is at the insured transform, in a view that holds
\* points of two impact functions
C28_Witness ==
  /\ Main.pc = "inner"
  /\ ChunkLen >= 2
  /\ Len(UniqueImpf(Main.exp_gdf)) >= 2

\* ------------------------------------------------------------------------
\* C29: once the view of a call is built, the filtered-to-original mapping
\* is the strictly increasing sequence of the kept positions, all in
\* 0..n_exp_pnt - 1, and stays so to the end of the call; the index arrays
\* of the yielded chunks are pairwise disjoint, without repetition, and
\* cover exactly the view positions with a non-null id, so no position of
\* the exposures is the target of two chunk columns.
\* ------------------------------------------------------------------------
\* the chunk columns of a sequence of index arrays
ChunkColumns(idxs) ==
  UNION {{<<i, j>> : j \in 1..Len(idxs[i])} : i \in DOMAIN idxs}

\* whether the mapping is built for the call of "main"
ViewBuilt == Main.pc # "idle" /\ Main.error # "AttributeError"

C29_MappingAndChunks ==
  LET idxs == PlannedIdx(Main.exp_gdf, UniqueImpf(Main.exp_gdf))
  IN /\ ViewBuilt =>
          /\ \A j \in DOMAIN orig_exp_idx : orig_exp_idx[j] \in Points
          /\ \A j, k \in DOMAIN orig_exp_idx : j < k => orig_exp_idx[j] < orig_exp_idx[k]
          /\ {orig_exp_idx[j] : j \in DOMAIN orig_exp_idx} = Kept
     /\ Yielding =>
          /\ calls.yielded \in DOMAIN idxs
          /\ Main.cur[1].idx = idxs[calls.yielded]
     /\ (Returned /\ Len(Main.exp_gdf) > 0) =>
          /\ calls.yielded = Len(idxs)
          /\ \A x, y \in ChunkColumns(idxs) :
                x # y => /\ idxs[x[1]][x[2]] # idxs[y[1]][y[2]]
                         /\ Take(orig_exp_idx, idxs[x[1]])[x[2]]
                              # Take(orig_exp_idx, idxs[y[1]])[y[2]]
          /\ {idxs[x[1]][x[2]] : x \in ChunkColumns(idxs)}
               = {k - 1 : k \in {i \in DOMAIN Main.exp_gdf : Main.exp_gdf[i].impf # NaN}}

\* a call has returned after two chunks over a view that leaves out the
\* first point of the exposures
C29_Witness ==
  /\ Returned
  /\ calls.yielded >= 2
  /\ Len(orig_exp_idx) < n_exp_pnt
  /\ orig_exp_idx[1] # 0

\* ------------------------------------------------------------------------
\* C30: in every result of impact() and insured_impact() the sum over the
\* events of frequency[e] * at_event[e] equals aai_agg, which equals the
\* sum over the points of eai_exp[p].
\* ------------------------------------------------------------------------
\* the frequency-weighted sum of an at_event array
WeightedSum(at_event) ==
  SumSeq([e \in 1..Len(at_event) |-> hazard.frequency[e] * at_event[e]])

C30_AggregationOrdersAgree ==
  Returned =>
     /\ Len(Res.at_event) = n_events
     /\ WeightedSum(Res.at_event) = Res.aai_agg
     /\ Res.aai_agg = SumSeq(Res.eai_exp)

\* an insured streaming call over two events has returned a positive
\* impact accumulated from two chunks
C30_Witness ==
  /\ Returned /\ Main.insured /\ ~Main.save_mat
  /\ n_events >= 2
  /\ calls.yielded >= 2
  /\ Res.aai_agg > 0

\* ------------------------------------------------------------------------
\* C24 (as claimed): in streaming mode at most one chunk's sub-matrix
\* exists at any point of the computation.
\* ------------------------------------------------------------------------
\* the pairs of the call of "main" that exist: the one just yielded and
\* the ones the consumer's loop variables are bound to
LiveChunks == Len(Main.cur) + Len(Main.held)

MaxAssigned == 2

\* a row whose centroid column holds c
AssignedTo(r, c) == [r EXCEPT !.centr = c]

AssignedRows ==
  {AssignedTo(r, c) : r \in {Row(2, 0, 1, 1, 3), Row(1, 1, 2, 1, 9)},
                      c \in (0 - 1)..(NCentr - 1)}

RECURSIVE AssignedTables(_)
\* all tables of exactly n such rows
AssignedTables(n) ==
  IF n = 0 THEN {<<>>}
  ELSE {Append(t, r) : t \in AssignedTables(n - 1), r \in AssignedRows}

\* whether the table is what assign_centroids would compute
Matched(gdf) == \A i \in 1..Len(gdf) : gdf[i].centr = gdf[i].near

InitAssigned ==
  /\ exposures \in [gdf : UNION {AssignedTables(n) : n \in 0..MaxAssigned},
                    columns : ColumnSets,
                    assigned : BOOLEAN]
  /\ ~exposures.assigned => Matched(exposures.gdf)
  /\ hazard \in Hazards
  /\ impfset = ImpfSet
  /\ max_matrix_size \in 1..MaxCells
  /\ orig_exp_idx = Arange(Len(exposures.gdf))
  /\ frames = [c \in Callers |-> IdleFrame]
  /\ calls = NoCalls

SpecAssigned == InitAssigned /\ [][Next]_vars

\* ------------------------------------------------------------------------
\* C26: no step of impact() or insured_impact() changes the hazard, the
\* impact function set, the columns of the exposures or the value, impact
\* function id, deductible and cover of a point; the centroid column is
\* the only thing a call may write, it is left as it is when it exists,
\* and assign_centroids is never invoked with overwrite = True.
\* ------------------------------------------------------------------------
\* the table without its centroid column
WithoutCentr(gdf) ==
  [i \in 1..Len(gdf) |->
     [value |-> gdf[i].value, impf |-> gdf[i].impf, near |-> gdf[i].near,
      deductible |-> gdf[i].deductible, cover |-> gdf[i].cover]]

C26_InputsReadOnly ==
  [][/\ hazard' = hazard
     /\ impfset' = impfset
     /\ exposures'.columns = exposures.columns
     /\ WithoutCentr(exposures'.gdf) = WithoutCentr(exposures.gdf)
     /\ exposures.assigned => exposures' = exposures
     /\ calls'.assign_centroids > calls.assign_centroids => exposures'.assigned
     /\ calls'.overwrite = 0]_vars

\* a call has returned a positive impact for exposures that came assigned
\* to centroids other than the ones the matching finds, and they still are
C26_Witness ==
  /\ Returned
  /\ calls.assign_centroids = 1
  /\ ~Matched(exposures.gdf)
  /\ Res.aai_agg > 0

\* ------------------------------------------------------------------------
\* Two calls of impact() on one instance, interleaved, while the owner of
\* the exposures goes on editing them
\* ------------------------------------------------------------------------
RaceRows == {Row(0, 0, 1, 1, 3), Row(2, 0, 1, 1, 3), Row(1, 1, 1, 1, 9)}

RECURSIVE RaceTables(_)
\* all tables of exactly n such rows
RaceTables(n) ==
  IF n = 0 THEN {<<>>}
  ELSE {Append(t, r) : t \in RaceTables(n - 1), r \in RaceRows}

\* whether the call of c has built its view and not ended yet
InProgress(c) == frames[c].pc \notin {"idle", "done", "error"}

\* the exposures are the caller's object: between the start of one call
\* and the start of the other the caller sets the value of a point to
\* zero, or to a positive value
EditExposures ==
  \E i \in 1..n_exp_pnt : \E v \in {0, 2} :
     /\ \E c \in Callers : InProgress(c)
     /\ \E c \in Callers : frames[c].pc = "idle"
     /\ exposures.gdf[i].value # v
     /\ (v = 0 \/ exposures.gdf[i].value = 0)
     /\ exposures' = [exposures EXCEPT !.gdf[i].value = v]
     /\ UNCHANGED <<hazard, impfset, max_matrix_size, orig_exp_idx, frames, calls>>

InitRace ==
  /\ exposures \in [gdf : UNION {RaceTables(n) : n \in 1..MaxAssigned},
                    columns : {{}},
                    assigned : {TRUE}]
  /\ hazard = Hazard(MaxEvents)
  /\ impfset = ImpfSet
  /\ max_matrix_size \in MaxEvents..MaxCells
  /\ orig_exp_idx = Arange(Len(exposures.gdf))
  /\ frames = [c \in Callers |-> IdleFrame]
  /\ calls = NoCalls

NextRace ==
  \/ \E c \in Callers : \E save_mat \in BOOLEAN : impact(c, save_mat)
  \/ \E c \in Callers : ImpMatGenNextChunk(c)
  \/ \E c \in Callers : ImpMatGenNextGroup(c)
  \/ \E c \in Callers : Consume(c)
  \/ \E c \in Callers : Finish(c)
  \/ EditExposures

SpecRace == InitRace /\ [][NextRace]_vars

\* ------------------------------------------------------------------------
\* C27: with two interleaved calls on one instance a state is reachable in
\* which a call has mapped its chunk columns through the mapping written
\* by the other call and returns a result different from the one it
\* returns alone; and a call ends otherwise than it does alone only so:
\* the mapping in place is then the one of the other call, not its own.
\* ------------------------------------------------------------------------
\* the result of the call of frame f when nothing else writes the mapping:
\* its chunks are mapped through the mapping of its own view build
AloneResult(f) ==
  IF Len(f.exp_gdf) = 0 THEN _return_empty(f.save_mat)
  ELSE LET pairs == GenPairs(f.exp_gdf, UniqueImpf(f.exp_gdf), max_matrix_size)
           imp_mat == csr_matrix([k \in DOMAIN pairs |->
                                    [data |-> [x \in NonzeroCoords(pairs[k].mat) |->
                                                 pairs[k].mat.ent[x]],
                                     col |-> Take(f.own_idx, pairs[k].idx)]],
                                 n_events, n_exp_pnt)
           m == risk_metrics(imp_mat, hazard.frequency)
       IN from_eih(m.at_event, m.eai_exp, m.aai_agg,
                   IF f.save_mat THEN <<imp_mat>> ELSE <<>>)

\* the call of c has ended otherwise than it does alone
Differs(c) ==
  \/ frames[c].pc = "error"
  \/ frames[c].pc = "done" /\ frames[c].result # << AloneResult(frames[c]) >>

\* the mapping in place is the one written by the call of o, not the one
\* the call of c has written
Overwritten(c, o) ==
  /\ frames[o].pc # "idle"
  /\ orig_exp_idx = frames[o].own_idx
  /\ orig_exp_idx # frames[c].own_idx

MaxPulls == 3

GenRows == {Row(2, 0, 1, 1, 3), Row(1, 1, 1, 1, 9), Row(2, 0, 2, 2, 1)}

RECURSIVE GenTables(_)
\* all tables of exactly n such rows
GenTables(n) ==
  IF n = 0 THEN {<<>>}
  ELSE {Append(t, r) : t \in GenTables(n - 1), r \in GenRows}

\* minimal_exp_gdf followed by the call of imp_mat_gen, wrapped in
\* insured_mat_gen or not: the generator object exists, none of its code
\* has run
CreateGenerator(c, insured) ==
  LET exp == assign_centroids(exposures, OverwriteArg)
      exp_gdf == MinimalGdf(exp.gdf)
      own == Nonzero(ExpMask(exp.gdf))
  IN /\ frames[c].pc = "idle"
     /\ exposures' = exp
     /\ orig_exp_idx' = StoredMapping(own)
     /\ frames' = [frames EXCEPT ![c] =
          [IdleFrame EXCEPT !.pc = "suspended", !.insured = insured,
                            !.own_idx = own,
                            !.exp_gdf = exp_gdf,
                            !.ids = UniqueImpf(exp_gdf)]]
     /\ calls' = CallsOfAssign(calls)
     /\ UNCHANGED <<hazard, impfset, max_matrix_size>>

\* next(gen): the generator is resumed
Pull(c) ==
  /\ frames[c].pc = "suspended"
  /\ frames' = [frames EXCEPT ![c].pc = "pull"]
  /\ UNCHANGED <<exposures, hazard, impfset, max_matrix_size, orig_exp_idx, calls>>

\* next(gen) returns the pair, which the consumer binds to its variable
TakePair(c) ==
  LET f == frames[c]
  IN /\ f.pc = "yielded"
     /\ frames' = [frames EXCEPT ![c] =
          [f EXCEPT !.pc = "suspended", !.cur = <<>>, !.held = Bound(f, f.cur[1])]]
     /\ UNCHANGED <<exposures, hazard, impfset, max_matrix_size, orig_exp_idx, calls>>

\* the loops of the generator are over: next(gen) raises StopIteration
Exhaust(c) ==
  LET f == frames[c]
  IN /\ f.pc = "pull"
     /\ f.chunks = <<>>
     /\ f.ids = <<>>
     /\ frames' = [frames EXCEPT ![c].pc = "exhausted"]
     /\ calls' = [calls EXCEPT !.stop_iteration = @ + 1]
     /\ UNCHANGED <<exposures, hazard, impfset, max_matrix_size, orig_exp_idx>>

\* a generator that starts over when pulled after its end (faulty variant,
\* breaks C25)
PullAgain_Restart(c) ==
  LET f == frames[c]
  IN /\ f.pc = "exhausted"
     /\ calls.stop_iteration < MaxPulls
     /\ frames' = [frames EXCEPT ![c].pc = "pull",
                                 ![c].ids = UniqueImpf(f.exp_gdf)]
     /\ calls' = [calls EXCEPT !.stop_iteration = @ + 1]
     /\ UNCHANGED <<exposures, hazard, impfset, max_matrix_size, orig_exp_idx>>

\* next(gen) on the exhausted generator raises StopIteration again
PullAgain(c) ==
  /\ frames[c].pc = "exhausted"
  /\ calls.stop_iteration < MaxPulls
  /\ calls' = [calls EXCEPT !.stop_iteration = @ + 1]
  /\ UNCHANGED <<exposures, hazard, impfset, max_matrix_size, orig_exp_idx, frames>>

\* the consumer stops pulling and drops the generator
Abandon(c) ==
  /\ frames[c].pc = "suspended"
  /\ frames' = [frames EXCEPT ![c].pc = "closed", ![c].held = <<>>]
  /\ UNCHANGED <<exposures, hazard, impfset, max_matrix_size, orig_exp_idx, calls>>

InitGen ==
  /\ exposures \in [gdf : UNION {GenTables(n) : n \in 0..MaxExp},
                    columns : ColumnSets,
                    assigned : {FALSE}]
  /\ hazard \in Hazards
  /\ impfset = ImpfSet
  /\ max_matrix_size \in 1..MaxCells
  /\ orig_exp_idx = Arange(Len(exposures.gdf))
  /\ frames = [c \in Callers |-> IdleFrame]
  /\ calls = NoCalls

NextGen ==
  \/ \E insured \in BOOLEAN : CreateGenerator("main", insured)
  \/ Pull("main")
  \/ ImpMatGenNextChunk("main")
  \/ ImpMatGenNextGroup("main")
  \/ insured_mat_gen("main")
  \/ TakePair("main")
  \/ Exhaust("main")
  \/ PullAgain("main")
  \/ Abandon("main")

SpecGen == InitGen /\ [][NextGen]_vars

\* ------------------------------------------------------------------------
\* C25: the chunk sequence is pull-driven and single-pass. Creating it
\* computes nothing; a pull computes one chunk, transforms that chunk and
\* no other on the insured path, and hands it over (or ends in an error or
\* in StopIteration); nothing is computed while the consumer does not
\* pull or after it has stopped; an exhausted sequence has yielded every
\* planned chunk once and answers further pulls with StopIteration only.
\* ------------------------------------------------------------------------
\* what the generator has computed so far
Computed(k) ==
  [get_func |-> k.get_func, get_mdr |-> k.get_mdr, get_fraction |-> k.get_fraction,
   get_paa |-> k.get_paa, yielded |-> k.yielded]

C25_PullDriven ==
  [][LET f == frames["main"]
         g == frames'["main"]
     IN /\ f.pc = "idle" =>
             g.pc = "suspended" /\ g.cur = <<>> /\ Computed(calls') = Computed(NoCalls)
        /\ f.pc \in {"suspended", "yielded", "closed", "exhausted", "error"} =>
             Computed(calls') = Computed(calls)
        /\ f.pc = "pull" =>
             /\ g.pc \in {"inner", "yielded", "error", "exhausted"}
             /\ g.pc \in {"inner", "yielded"} =>
                  /\ calls'.yielded = calls.yielded + 1
                  /\ calls'.get_mdr = calls.get_mdr + 1
                  /\ calls'.get_paa = calls.get_paa
                  /\ g.cur[1].idx
                       = PlannedIdx(f.exp_gdf, UniqueImpf(f.exp_gdf))[calls'.yielded]
             /\ g.pc \in {"error", "exhausted"} =>
                  calls'.yielded = calls.yielded /\ calls'.get_mdr = calls.get_mdr
             /\ g.pc = "exhausted" =>
                  calls.yielded = Len(PlannedIdx(f.exp_gdf, UniqueImpf(f.exp_gdf)))
        /\ f.pc = "inner" =>
             /\ g.pc \in {"yielded", "error"}
             /\ calls'.yielded = calls.yielded /\ calls'.get_mdr = calls.get_mdr
             /\ g.pc = "yielded" =>
                  /\ calls'.get_paa = calls.get_paa + 1
                  /\ g.cur = << InsuredPair(f.exp_gdf, f.cur[1]) >>
        /\ f.pc = "yielded" => g.pc = "suspended" /\ g.cur = <<>>
        /\ f.pc = "closed" => g = f
        /\ f.pc = "exhausted" =>
             g = f /\ calls'.stop_iteration = calls.stop_iteration + 1]_vars

\* the consumer of an insured sequence has stopped after its first pair:
\* one chunk was computed and transformed, the chunks to come were not
C25_Witness ==
  /\ Main.pc = "closed" /\ Main.insured
  /\ calls.yielded = 1 /\ calls.get_mdr = 1 /\ calls.get_paa = 1
  /\ Main.chunks # <<>>

====
